---- MODULE Spec2Model ----
(***************************************************************************)
(* The import-location server of the model catalog bridge                  *)
(* (pkg/cmd/server/location/server/server.go): the catalog store           *)
(* `content`, the model-card store `modelcards`, the routes registered on  *)
(* the router, the process-wide mutex and the hydration routine            *)
(* loadFromStorage.                                                        *)
(*                                                                         *)
(* Every HTTP handler takes the mutex on entry and releases it on return   *)
(* (defer), so a handler is one atomic step that is enabled only while the *)
(* mutex is free.  loadFromStorage is modelled step by step because it     *)
(* keeps the mutex across loop iterations.  The handler that hydration     *)
(* registers for a hydrated URI takes no mutex at all.                     *)
(***************************************************************************)
EXTENDS Naturals, Sequences, FiniteSets, TLC

VARIABLES
    format,      \* ImportLocationServer.format, fixed at construction
    content,     \* ImportLocationServer.content: URI -> *ImportLocation (a reference)
    heap,        \* the ImportLocation objects: reference -> content ([]byte or nil)
    routes,      \* static GET routes added by loadFromStorage: URI -> *ImportLocation
    modelcards,  \* ImportLocationServer.modelcards: key -> modelCardMetadata
    lock,        \* ImportLocationServer.lock: "free" or its holder
    hpc,         \* loadFromStorage: position of the hydration routine
    hkeys,       \* loadFromStorage: the keys still to be ranged over
    hfetched,    \* loadFromStorage: il.content fetched for the current key
    hret,        \* loadFromStorage: "none" while running, then the bool it returned
    resp,        \* the status and body the last request wrote
    crit,        \* the request that holds the mutex between two of its steps
    sget,        \* the path of a hydrated-route GET between its two reads of il.content
    reads,       \* history: Reads of a card since it was created or its token changed
    written,     \* history: who last wrote a URI's payload, and what, if not deleted since
    deleted,     \* history: URIs deleted while present, with no Upsert since
    populated    \* history: URIs ever written by an accepted Upsert or by hydration

vars == <<format, content, heap, routes, modelcards, lock, hpc, hkeys, hfetched,
          hret, resp, crit, sget, reads, written, deleted, populated>>

store == <<content, heap, routes, modelcards>>
hydr == <<hpc, hkeys, hfetched, hret>>
hist == <<reads, written, deleted, populated>>

-----------------------------------------------------------------------------
(* Bounds of the model. *)

\* Longest key list ListModelsKeys returns.
MaxKeys == 2
\* The Read counter of the history saturates here (one past the first 304s).
MaxReads == 13

-----------------------------------------------------------------------------
(* Program constants. *)

StatusOK == 200
StatusCreated == 201
StatusNotModified == 304
StatusBadRequest == 400
StatusNotFound == 404
\* handleModelCardGet: content.updateCount > 10
ServeLimit == 10

-----------------------------------------------------------------------------
(* Values. *)

\* A []byte: nil, or a (possibly empty) byte string.
NilBytes == <<"nil">>
Bytes(s) == <<"bytes", s>>
EmptyBytes == Bytes("")
\* len(b) == 0
IsEmpty(b) == b = NilBytes \/ b = EmptyBytes

\* Response bodies.
NoBody == <<"none">>
Text(s) == <<"text", s>>
UriList(S) == <<"uris", S>>

\* Keys are strings, written as sequences of characters so that
\* strings.Split can be computed on them.
KeyEmpty == <<>>
KeyM == <<"m">>
KeyMA == <<"m", "_", "a">>
KeyMB == <<"m", "_", "b">>
KeyMAX == <<"m", "_", "a", "_", "x">>
Keys == {KeyEmpty, KeyM, KeyMA, KeyMB, KeyMAX}

\* The output formats (types.NormalizerFormat) a request path can name, and
\* the one the server is constructed with.
Formats == {"catalog-info.yaml", "jsonarray"}
ConfiguredFormats == {"catalog-info.yaml"}

\* Path parameters of GET /:model/:version/:format.
Models == {<<"m">>}
Versions == {<<"a">>, <<"b">>}
Paths == Models \X Versions \X Formats

\* rest.PostBody after BindJSON; BadJSON is a body BindJSON rejects.
BadJSON == [bad |-> TRUE]
DocBodies == {NilBytes, EmptyBytes, Bytes("create")}
CardKeys == {"foo", "bar"}
CardTexts == {"card1", "card2"}
Tokens == {"t1", "t2"}
PostBody(B, CK, CT, TK) ==
    [Body : B, ModelCardKey : CK, ModelCard : CT, LastUpdateTimeSinceEpoch : TK]

\* What FetchModel can return for a key of backing storage.
StoredBodies == {Bytes("stored")}

\* A Go map with no entries.
EmptyMap == [x \in {} |-> x]

NoRequest == [op |-> "none"]
NoGet == <<>>
NoResponse == [status |-> 0, body |-> NoBody]
Response(s, b) == [status |-> s, body |-> b]

-----------------------------------------------------------------------------
(* Pure helpers. *)

\* strings.Split(key, "_")
RECURSIVE Split(_)
Split(s) ==
    IF \E i \in 1..Len(s) : s[i] = "_"
    THEN LET i == CHOOSE j \in 1..Len(s) :
                      s[j] = "_" /\ \A k \in 1..(j - 1) : s[k] # "_"
         IN  <<SubSeq(s, 1, i - 1)>> \o Split(SubSeq(s, i + 1, Len(s)))
    ELSE <<s>>

\* util.BuildImportKeyAndURI(seg0, seg1, format): the URI "/seg0/seg1/<format>".
BuildImportKeyAndURI(seg0, seg1, fmt) == <<seg0, seg1, fmt>>

\* The references reachable from the map and from the router.
Live(c, r) == {c[u] : u \in DOMAIN c} \cup {r[u] : u \in DOMAIN r}

\* il := &ImportLocation{} for the entry of uri: a reference no object has
\* that stays reachable once the map entry of uri is overwritten.
NewRef(uri) ==
    LET kept == Live([u \in (DOMAIN content) \ {uri} |-> content[u]], routes)
    IN  CHOOSE n \in 1..(Cardinality(kept) + 1) :
            n \notin kept /\ \A m \in 1..(n - 1) : m \in kept

\* The heap without the objects nothing refers to any more.
Collect(h, c, r) == [x \in (DOMAIN h) \cap Live(c, r) |-> h[x]]

-----------------------------------------------------------------------------
(* The handlers, as functions of the current state and the request. *)

\* (*ImportLocation).handleCatalogInfoGet, for the object at reference il.
handleCatalogInfoGet(il) ==
    IF heap[il] = NilBytes
    THEN Response(StatusNotFound, NoBody)
    ELSE Response(StatusOK, heap[il])

\* The closure registered for GET /:model/:version/:format.
handleItemGet(model, version, fmt) ==
    IF model = <<>> \/ version = <<>> \/ fmt = ""
    THEN Response(StatusBadRequest, NoBody)
    ELSE LET uriString == BuildImportKeyAndURI(model, version, format)
         IN  IF uriString \notin DOMAIN content
             THEN Response(StatusNotFound, NoBody)
             ELSE handleCatalogInfoGet(content[uriString])

\* The router: the static route loadFromStorage registered for the exact path
\* is matched before the parameterised route /:model/:version/:format.
IsStatic(path) == path \in DOMAIN routes
Dispatch(path) ==
    IF IsStatic(path)
    THEN handleCatalogInfoGet(routes[path])
    ELSE handleItemGet(path[1], path[2], path[3])

\* Listed, had it tested len(il.content) != 0 instead of il.content != nil.
Listed_NonEmpty(il) == ~IsEmpty(heap[il])

\* handleCatalogDiscoveryGet: the URIs whose il.content is not nil.
Listed(il) == heap[il] # NilBytes
handleCatalogDiscoveryGet ==
    Response(StatusOK, UriList({uri \in DOMAIN content : Listed(content[uri])}))

\* UpsertCard, had it stored the incoming content on every Upsert of a known
\* key, whatever the token.
UpsertCard_Overwrite(known, mcm, postBody) ==
    IF ~known
    THEN [content |-> postBody.ModelCard,
          lastUpdateTimeSinceEpoch |-> postBody.LastUpdateTimeSinceEpoch,
          needToUpdate |-> TRUE,
          updateCount |-> 0]
    ELSE IF mcm.lastUpdateTimeSinceEpoch # postBody.LastUpdateTimeSinceEpoch
         THEN [mcm EXCEPT !.lastUpdateTimeSinceEpoch = postBody.LastUpdateTimeSinceEpoch,
                          !.needToUpdate = TRUE,
                          !.updateCount = 0]
         ELSE [mcm EXCEPT !.content = postBody.ModelCard]

\* UpsertCard, had a changed token left needToUpdate as it was.
UpsertCard_NoDirty(known, mcm, postBody) ==
    IF ~known
    THEN [content |-> postBody.ModelCard,
          lastUpdateTimeSinceEpoch |-> postBody.LastUpdateTimeSinceEpoch,
          needToUpdate |-> TRUE,
          updateCount |-> 0]
    ELSE IF mcm.lastUpdateTimeSinceEpoch # postBody.LastUpdateTimeSinceEpoch
         THEN [mcm EXCEPT !.lastUpdateTimeSinceEpoch = postBody.LastUpdateTimeSinceEpoch,
                          !.updateCount = 0]
         ELSE mcm

\* UpsertCard, had a changed token left updateCount as it was.
UpsertCard_KeepCount(known, mcm, postBody) ==
    IF ~known
    THEN [content |-> postBody.ModelCard,
          lastUpdateTimeSinceEpoch |-> postBody.LastUpdateTimeSinceEpoch,
          needToUpdate |-> TRUE,
          updateCount |-> 0]
    ELSE IF mcm.lastUpdateTimeSinceEpoch # postBody.LastUpdateTimeSinceEpoch
         THEN [mcm EXCEPT !.lastUpdateTimeSinceEpoch = postBody.LastUpdateTimeSinceEpoch,
                          !.needToUpdate = TRUE]
         ELSE mcm

\* handleCatalogUpsertPost, the model-card part: the record stored for
\* postBody.ModelCardKey; `known` is the ok of the map lookup.
UpsertCard(known, mcm, postBody) ==
    IF ~known
    THEN [content |-> postBody.ModelCard,
          lastUpdateTimeSinceEpoch |-> postBody.LastUpdateTimeSinceEpoch,
          needToUpdate |-> TRUE,
          updateCount |-> 0]
    ELSE IF mcm.lastUpdateTimeSinceEpoch # postBody.LastUpdateTimeSinceEpoch
         THEN [mcm EXCEPT !.lastUpdateTimeSinceEpoch = postBody.LastUpdateTimeSinceEpoch,
                          !.needToUpdate = TRUE,
                          !.updateCount = 0]
         ELSE mcm

\* handleCatalogUpsertPost: the checks that end in 400 before anything is written.
UpsertRejected(key, postBody) ==
    \/ Len(key) = 0
    \/ postBody = BadJSON
    \/ Len(Split(key)) < 2

\* handleCatalogUpsertPost past its checks: the catalog entry and the
\* model-card record are written and 201 is answered.
StoreCard(postBody) ==
    LET ck == postBody.ModelCardKey
        ok == ck \in DOMAIN modelcards
        mcm == UpsertCard(ok, IF ok THEN modelcards[ck] ELSE <<>>, postBody)
    IN  (ck :> mcm) @@ modelcards

UpsertApplied(key, postBody) ==
    LET segs == Split(key)
        uriString == BuildImportKeyAndURI(segs[1], segs[2], format)
        il == NewRef(uriString)
    IN  [resp |-> Response(StatusCreated, NoBody),
         content |-> (uriString :> il) @@ content,
         heap |-> (il :> postBody.Body) @@ heap,
         modelcards |-> StoreCard(postBody)]

\* handleCatalogUpsertPost, had the model card been stored before the key's
\* segments are checked.
handleCatalogUpsertPost_CardFirst(key, postBody) ==
    IF Len(key) = 0 \/ postBody = BadJSON
    THEN [resp |-> Response(StatusBadRequest, NoBody),
          content |-> content, heap |-> heap, modelcards |-> modelcards]
    ELSE IF Len(Split(key)) < 2
         THEN [resp |-> Response(StatusBadRequest, NoBody),
               content |-> content, heap |-> heap,
               modelcards |-> StoreCard(postBody)]
         ELSE UpsertApplied(key, postBody)

\* handleCatalogUpsertPost: the response and the stores it leaves.
handleCatalogUpsertPost(key, postBody) ==
    IF UpsertRejected(key, postBody)
    THEN [resp |-> Response(StatusBadRequest, NoBody),
          content |-> content, heap |-> heap, modelcards |-> modelcards]
    ELSE UpsertApplied(key, postBody)

\* handleCatalogDelete: the checks that end in 400.
DeleteRejected(key) == Len(key) = 0 \/ Len(Split(key)) < 2

\* ClearContent, had it cleared every entry of the map instead of the one
\* looked up.
ClearContent_All(uri) == [il \in DOMAIN heap |-> NilBytes]

\* handleCatalogDelete: il.content = nil for the entry the map holds, if any.
ClearContent(uri) ==
    IF uri \in DOMAIN content
    THEN [heap EXCEPT ![content[uri]] = NilBytes]
    ELSE heap

handleCatalogDelete(key) ==
    IF DeleteRejected(key)
    THEN [resp |-> Response(StatusBadRequest, NoBody), heap |-> heap]
    ELSE LET segs == Split(key)
             uri == BuildImportKeyAndURI(segs[1], segs[2], format)
         IN  [resp |-> Response(StatusOK, NoBody), heap |-> ClearContent(uri)]

\* Throttled, had the comparison been updateCount >= 10.
Throttled_OffByOne(mcm) == ~mcm.needToUpdate /\ mcm.updateCount >= ServeLimit

\* handleModelCardGet: the 304 condition.
Throttled(mcm) == ~mcm.needToUpdate /\ mcm.updateCount > ServeLimit

\* handleModelCardGet, had a served Read cleared needToUpdate on every record.
handleModelCardGet_ClearsAll(key) ==
    IF key \notin DOMAIN modelcards
    THEN [resp |-> Response(StatusNotFound, NoBody), modelcards |-> modelcards]
    ELSE LET mcm == modelcards[key]
         IN  IF Throttled(mcm)
             THEN [resp |-> Response(StatusNotModified, NoBody),
                   modelcards |-> modelcards]
             ELSE [resp |-> Response(StatusOK, Text(mcm.content)),
                   modelcards |->
                       [k \in DOMAIN modelcards |->
                           IF k = key
                           THEN [mcm EXCEPT !.needToUpdate = FALSE,
                                            !.updateCount = mcm.updateCount + 1]
                           ELSE [modelcards[k] EXCEPT !.needToUpdate = FALSE]]]

handleModelCardGet(key) ==
    IF key \notin DOMAIN modelcards
    THEN [resp |-> Response(StatusNotFound, NoBody), modelcards |-> modelcards]
    ELSE LET mcm == modelcards[key]
         IN  IF Throttled(mcm)
             THEN [resp |-> Response(StatusNotModified, NoBody),
                   modelcards |-> modelcards]
             ELSE [resp |-> Response(StatusOK, Text(mcm.content)),
                   modelcards |->
                       [modelcards EXCEPT ![key] =
                           [mcm EXCEPT !.needToUpdate = FALSE,
                                       !.updateCount = mcm.updateCount + 1]]]

-----------------------------------------------------------------------------
(* History bookkeeping for the properties; it never feeds back into the      *)
(* program state.                                                            *)

NotWritten == [src |-> "none", bytes |-> NilBytes]
Written(src, bytes) == [src |-> src, bytes |-> bytes]
UriOf(key) == BuildImportKeyAndURI(Split(key)[1], Split(key)[2], format)

\* The Upsert creates the card record or changes its freshness token.
FreshUpsert(postBody) ==
    \/ postBody.ModelCardKey \notin DOMAIN modelcards
    \/ modelcards[postBody.ModelCardKey].lastUpdateTimeSinceEpoch
           # postBody.LastUpdateTimeSinceEpoch

Saturate(n) == IF n < MaxReads THEN n + 1 ELSE MaxReads

-----------------------------------------------------------------------------
(* The inputs a specification draws its requests from. *)

AllPostBodies == PostBody(DocBodies, CardKeys, CardTexts, Tokens) \cup {BadJSON}
\* One model card, never changed: the catalog side of an Upsert at full width.
CatalogPostBodies == PostBody(DocBodies, {"foo"}, {"card1"}, {"t1"}) \cup {BadJSON}
\* One document: the model-card side of an Upsert at full width.
CardPostBodies ==
    PostBody({Bytes("create")}, {"foo"}, CardTexts, Tokens)
        \cup PostBody({Bytes("create")}, {"bar"}, {"card1"}, {"t1"})
        \cup {BadJSON}

\* The key lists ListModelsKeys can return.
StorageKeys == {KeyM, KeyMA, KeyMB}
RECURSIVE ListsUpTo(_, _)
ListsUpTo(S, n) ==
    IF n = 0 THEN {<<>>}
    ELSE LET shorter == ListsUpTo(S, n - 1)
         IN  shorter \cup {<<k>> \o l : k \in S, l \in {x \in shorter : Len(x) = n - 1}}
KeyLists == ListsUpTo(StorageKeys, MaxKeys)

-----------------------------------------------------------------------------
(* The state after NewImportLocationServer. *)

Init ==
    /\ format \in ConfiguredFormats
    /\ content = EmptyMap
    /\ heap = EmptyMap
    /\ routes = EmptyMap
    /\ modelcards = EmptyMap
    /\ lock = "free"
    /\ hpc = "start"
    /\ hkeys = <<>>
    /\ hfetched = NilBytes
    /\ hret = "none"
    /\ resp = NoResponse
    /\ crit = NoRequest
    /\ sget = NoGet
    /\ reads = [k \in CardKeys |-> 0]
    /\ written = [u \in Paths |-> NotWritten]
    /\ deleted = {}
    /\ populated = {}

-----------------------------------------------------------------------------
(* The requests.  A handler locks on entry and unlocks on return, so it runs *)
(* only while the mutex is free and leaves it free.                          *)

\* POST upsert?key=...
Upsert(key, postBody) ==
    /\ lock = "free"
    /\ LET r == handleCatalogUpsertPost(key, postBody)
           accepted == r.resp.status = StatusCreated
       IN  /\ content' = r.content
           /\ heap' = Collect(r.heap, r.content, routes)
           /\ modelcards' = r.modelcards
           /\ resp' = r.resp
           /\ reads' = IF accepted /\ FreshUpsert(postBody)
                       THEN [reads EXCEPT ![postBody.ModelCardKey] = 0]
                       ELSE reads
           /\ written' = IF accepted
                          THEN [written EXCEPT ![UriOf(key)] = Written("upsert", postBody.Body)]
                          ELSE written
           /\ deleted' = IF accepted THEN deleted \ {UriOf(key)} ELSE deleted
           /\ populated' = IF accepted THEN populated \cup {UriOf(key)} ELSE populated
    /\ UNCHANGED <<format, crit, sget, routes, lock, hydr>>

\* Delete, had it unbound the URI from the map instead of clearing the
\* entry's content.
Delete_Unbind(key) ==
    /\ lock = "free"
    /\ ~DeleteRejected(key)
    /\ content' = [u \in DOMAIN content \ {UriOf(key)} |-> content[u]]
    /\ resp' = Response(StatusOK, NoBody)
    /\ written' = [written EXCEPT ![UriOf(key)] = NotWritten]
    /\ deleted' = deleted \cup ({UriOf(key)} \cap DOMAIN content)
    /\ UNCHANGED <<format, crit, sget, heap, routes, modelcards, lock, hydr, reads, populated>>

\* DELETE remove?key=...
Delete(key) ==
    /\ lock = "free"
    /\ LET r == handleCatalogDelete(key)
           hit == r.resp.status = StatusOK /\ UriOf(key) \in DOMAIN content
       IN  /\ heap' = r.heap
           /\ resp' = r.resp
           /\ written' = IF hit THEN [written EXCEPT ![UriOf(key)] = NotWritten]
                          ELSE written
           /\ deleted' = IF hit THEN deleted \cup {UriOf(key)} ELSE deleted
    /\ UNCHANGED <<format, crit, sget, content, routes, modelcards, lock, hydr, reads, populated>>

\* GET list
Discovery ==
    /\ lock = "free"
    /\ resp' = handleCatalogDiscoveryGet
    /\ UNCHANGED <<format, crit, sget, store, lock, hydr, hist>>

\* GET /model/version/format, routed to the parameterised route
ItemGet(path) ==
    /\ ~IsStatic(path)
    /\ lock = "free"
    /\ resp' = handleItemGet(path[1], path[2], path[3])
    /\ UNCHANGED <<format, crit, sget, store, lock, hydr, hist>>

\* GET /model/version/format, routed to the route hydration registered for
\* the path: il.handleCatalogInfoGet, which takes no mutex
StaticGet(path) ==
    /\ IsStatic(path)
    /\ resp' = handleCatalogInfoGet(routes[path])
    /\ UNCHANGED <<format, crit, sget, store, lock, hydr, hist>>

\* GET modelcard?key=...
ModelCardGet(key) ==
    /\ lock = "free"
    /\ LET r == handleModelCardGet(key)
       IN  /\ modelcards' = r.modelcards
           /\ resp' = r.resp
           /\ reads' = IF key \in DOMAIN modelcards
                       THEN [reads EXCEPT ![key] = Saturate(reads[key])]
                       ELSE reads
    /\ UNCHANGED <<format, crit, sget, content, heap, routes, lock, hydr,
                   written, deleted, populated>>

-----------------------------------------------------------------------------
(* loadFromStorage, one step per call that can block or fail. *)

\* HydrateListFails, had the mutex been taken before the keys are listed and
\* kept on the failing return.
HydrateListFails_Locked ==
    /\ hpc = "start"
    /\ hpc' = "done"
    /\ hret' = "false"
    /\ lock' = "hydration"
    /\ UNCHANGED <<format, crit, sget, store, hkeys, hfetched, resp, hist>>

\* ListModelsKeys fails or answers with a status other than 200: return false.
HydrateListFails ==
    /\ hpc = "start"
    /\ hpc' = "done"
    /\ hret' = "false"
    /\ UNCHANGED <<format, crit, sget, store, lock, hkeys, hfetched, resp, hist>>

\* ListModelsKeys answers 200 with a list of keys.
HydrateList(keys) ==
    /\ hpc = "start"
    /\ hpc' = "range"
    /\ hkeys' = keys
    /\ UNCHANGED <<format, crit, sget, store, lock, hfetched, hret, resp, hist>>

\* for _, key := range keys: a key with fewer than two segments is skipped.
HydrateSkip ==
    /\ hpc = "range"
    /\ hkeys # <<>>
    /\ Len(Split(Head(hkeys))) < 2
    /\ hkeys' = Tail(hkeys)
    /\ UNCHANGED <<format, crit, sget, store, lock, hpc, hfetched, hret, resp, hist>>

\* HydrateFetchFails, had a failed fetch rolled back the entries inserted for
\* earlier keys.
HydrateFetchFails_RollsBack ==
    /\ hpc = "range"
    /\ hkeys # <<>>
    /\ Len(Split(Head(hkeys))) >= 2
    /\ hpc' = "done"
    /\ hret' = "false"
    /\ hkeys' = <<>>
    /\ lock' = IF lock = "hydration" THEN "free" ELSE lock
    /\ content' = [u \in DOMAIN content \ DOMAIN routes |-> content[u]]
    /\ UNCHANGED <<format, crit, sget, heap, routes, modelcards, hfetched, resp, hist>>

\* FetchModel fails or answers with a status other than 200: return false;
\* the deferred Unlock of an earlier iteration runs.
HydrateFetchFails ==
    /\ hpc = "range"
    /\ hkeys # <<>>
    /\ Len(Split(Head(hkeys))) >= 2
    /\ hpc' = "done"
    /\ hret' = "false"
    /\ hkeys' = <<>>
    /\ lock' = IF lock = "hydration" THEN "free" ELSE lock
    /\ UNCHANGED <<format, crit, sget, store, hfetched, resp, hist>>

\* FetchModel answers 200 with the document.
HydrateFetch(bytes) ==
    /\ hpc = "range"
    /\ hkeys # <<>>
    /\ Len(Split(Head(hkeys))) >= 2
    /\ hpc' = "lock"
    /\ hfetched' = bytes
    /\ UNCHANGED <<format, crit, sget, store, lock, hkeys, hret, resp, hist>>

\* i.lock.Lock(); defer i.lock.Unlock(); i.content[uri] = il;
\* i.router.GET(uri, il.handleCatalogInfoGet).  Lock blocks while the mutex is
\* held, also when it is held by an earlier iteration of this very loop: the
\* deferred Unlock runs only when loadFromStorage returns.  So one call
\* inserts at most one entry, and router.GET is never reached a second time
\* for the same URI.
HydrateInsert ==
    /\ hpc = "lock"
    /\ lock = "free"
    /\ LET segs == Split(Head(hkeys))
           uri == BuildImportKeyAndURI(segs[1], segs[2], format)
           il == NewRef(uri)
           c == (uri :> il) @@ content
           r == (uri :> il) @@ routes
       IN  /\ lock' = "hydration"
           /\ content' = c
           /\ routes' = r
           /\ heap' = Collect((il :> hfetched) @@ heap, c, r)
           /\ written' = [written EXCEPT ![uri] = Written("hydration", hfetched)]
           /\ deleted' = deleted \ {uri}
           /\ populated' = populated \cup {uri}
    /\ hpc' = "range"
    /\ hkeys' = Tail(hkeys)
    /\ hfetched' = NilBytes
    /\ UNCHANGED <<format, crit, sget, modelcards, hret, resp, reads>>

\* The range is over: return true; the deferred Unlock runs.
HydrateReturn ==
    /\ hpc = "range"
    /\ hkeys = <<>>
    /\ hpc' = "done"
    /\ hret' = "true"
    /\ lock' = IF lock = "hydration" THEN "free" ELSE lock
    /\ UNCHANGED <<format, crit, sget, store, hkeys, hfetched, resp, hist>>

loadFromStorage ==
    \/ HydrateListFails
    \/ \E keys \in KeyLists : HydrateList(keys)
    \/ HydrateSkip
    \/ HydrateFetchFails
    \/ \E bytes \in StoredBodies : HydrateFetch(bytes)
    \/ HydrateInsert
    \/ HydrateReturn

-----------------------------------------------------------------------------
(* Specifications. *)

\* The catalog store at full width, with one model card that is never read.
Next ==
    \/ \E key \in Keys, postBody \in CatalogPostBodies : Upsert(key, postBody)
    \/ \E key \in Keys : Delete(key)
    \/ Discovery
    \/ \E path \in Paths : ItemGet(path)
    \/ \E path \in Paths : StaticGet(path)
    \/ loadFromStorage
Spec == Init /\ [][Next]_vars

\* The model-card store at full width, with one document: the requests alone,
\* after a hydration that found nothing (loadFromStorage never touches
\* modelcards).
NextCards ==
    \/ \E key \in {KeyM, KeyMA}, postBody \in CardPostBodies : Upsert(key, postBody)
    \/ \E key \in CardKeys : ModelCardGet(key)
    \/ Delete(KeyMA)
    \/ Discovery
    \/ \E path \in Paths : ItemGet(path)
SpecCards == Init /\ [][NextCards]_vars

-----------------------------------------------------------------------------
(* The same requests at the grain of the mutex: a writer takes i.lock, does  *)
(* its writes one after the other and unlocks on return; the handler of a    *)
(* hydrated route reads il.content twice and takes no mutex.                 *)

\* handleCatalogUpsertPost up to its first write: the checks pass, the mutex
\* is taken and the catalog entry is stored.
UpsertLock(key, postBody) ==
    /\ lock = "free"
    /\ ~UpsertRejected(key, postBody)
    /\ LET r == UpsertApplied(key, postBody)
       IN  /\ content' = r.content
           /\ heap' = Collect(r.heap, r.content, routes)
    /\ lock' = "upsert"
    /\ crit' = [op |-> "upsert", key |-> key, postBody |-> postBody]
    /\ written' = [written EXCEPT ![UriOf(key)] = Written("upsert", postBody.Body)]
    /\ deleted' = deleted \ {UriOf(key)}
    /\ populated' = populated \cup {UriOf(key)}
    /\ UNCHANGED <<format, sget, routes, modelcards, hydr, resp, reads>>

\* handleCatalogUpsertPost from its second write: the model-card record is
\* stored, 201 is answered and the deferred Unlock runs.
UpsertFinish ==
    /\ lock = "upsert"
    /\ modelcards' = StoreCard(crit.postBody)
    /\ resp' = Response(StatusCreated, NoBody)
    /\ reads' = IF FreshUpsert(crit.postBody)
                THEN [reads EXCEPT ![crit.postBody.ModelCardKey] = 0]
                ELSE reads
    /\ lock' = "free"
    /\ crit' = NoRequest
    /\ UNCHANGED <<format, sget, content, heap, routes, hydr,
                   written, deleted, populated>>

\* handleCatalogDelete up to its Lock: the checks pass and the mutex is taken.
DeleteLock(key) ==
    /\ lock = "free"
    /\ ~DeleteRejected(key)
    /\ lock' = "delete"
    /\ crit' = [op |-> "delete", key |-> key]
    /\ UNCHANGED <<format, sget, store, hydr, resp, hist>>

\* handleCatalogDelete under the mutex: il.content = nil, 200, Unlock.
DeleteFinish ==
    /\ lock = "delete"
    /\ LET r == handleCatalogDelete(crit.key)
           hit == UriOf(crit.key) \in DOMAIN content
       IN  /\ heap' = r.heap
           /\ resp' = r.resp
           /\ written' = IF hit THEN [written EXCEPT ![UriOf(crit.key)] = NotWritten]
                          ELSE written
           /\ deleted' = IF hit THEN deleted \cup {UriOf(crit.key)} ELSE deleted
    /\ lock' = "free"
    /\ crit' = NoRequest
    /\ UNCHANGED <<format, sget, content, routes, modelcards, hydr, reads, populated>>

\* il.handleCatalogInfoGet on a hydrated route, its first read of il.content:
\* the nil test, which answers 404 or goes on.
StaticCheck(path) ==
    /\ IsStatic(path)
    /\ sget = NoGet
    /\ IF heap[routes[path]] = NilBytes
       THEN resp' = Response(StatusNotFound, NoBody) /\ sget' = sget
       ELSE resp' = resp /\ sget' = path
    /\ UNCHANGED <<format, crit, store, lock, hydr, hist>>

\* il.handleCatalogInfoGet on a hydrated route, its second read of
\* il.content: whatever the field holds by then is handed to c.Data with 200.
StaticData ==
    /\ sget # NoGet
    /\ resp' = Response(StatusOK, heap[routes[sget]])
    /\ sget' = NoGet
    /\ UNCHANGED <<format, crit, store, lock, hydr, hist>>

\* The requests that can meet on one hydrated entry, at the grain of the mutex.
LockPostBodies == PostBody({Bytes("create")}, {"foo"}, {"card1"}, {"t1"})
NextLocks ==
    \/ \E postBody \in LockPostBodies : UpsertLock(KeyMA, postBody)
    \/ UpsertFinish
    \/ DeleteLock(KeyMA)
    \/ DeleteFinish
    \/ Discovery
    \/ \E path \in Paths : ItemGet(path)
    \/ \E path \in Paths : StaticCheck(path)
    \/ StaticData
    \/ loadFromStorage
SpecLocks == Init /\ [][NextLocks]_vars

\* Two catalog entries and two model cards, with one document, one card text
\* and one token: what each request leaves alone.
FramePostBodies == PostBody({Bytes("create")}, CardKeys, {"card1"}, {"t1"})
NextFrame ==
    \/ \E key \in {KeyMA, KeyMB}, postBody \in FramePostBodies : Upsert(key, postBody)
    \/ \E key \in {KeyMA, KeyMB} : Delete(key)
    \/ \E key \in CardKeys : ModelCardGet(key)
    \/ Discovery
    \/ \E path \in Paths : ItemGet(path)
SpecFrame == Init /\ [][NextFrame]_vars

-----------------------------------------------------------------------------
(* Properties. *)

\* What a GET of the path answers in the current state.
ItemGetOf(path) == Dispatch(path)
\* The URIs a Discovery lists in the current state.
Discovered == handleCatalogDiscoveryGet.body[2]
\* A key with at least two underscore-separated segments.
WellFormed(key) == \E i \in 1..Len(key) : key[i] = "_"

\* C1: staleness throttle.  For every model card, while fewer than 11 Reads
\* have been served since the record was created or its token changed, a
\* Read answers 200 with the stored content; from the 12th Read on it
\* answers 304 with no content and leaves the store as it is.  An Upsert
\* that changes the token starts the count again.
C1_StalenessThrottle ==
    \A k \in DOMAIN modelcards :
        LET r == handleModelCardGet(k)
        IN  IF reads[k] < 11
            THEN r.resp = Response(200, Text(modelcards[k].content))
            ELSE /\ r.resp = Response(304, NoBody)
                 /\ r.modelcards = modelcards

\* C1 witness: the 12th Read of "foo" since its last change was answered 304.
C1_Witness ==
    /\ "foo" \in DOMAIN modelcards
    /\ reads["foo"] = 12
    /\ resp = Response(304, NoBody)

\* C2: an Upsert on an existing record whose stored token differs from the
\* incoming one stores the incoming content and token, sets dirty and resets
\* the counter, so the next Read answers the incoming content.
C2_ChangedTokenReplaces ==
    [][\A key \in Keys, pb \in AllPostBodies \ {BadJSON} :
          (/\ Upsert(key, pb)
           /\ WellFormed(key)
           /\ pb.ModelCardKey \in DOMAIN modelcards
           /\ modelcards[pb.ModelCardKey].lastUpdateTimeSinceEpoch
                  # pb.LastUpdateTimeSinceEpoch)
          => /\ modelcards'[pb.ModelCardKey] =
                    [content |-> pb.ModelCard,
                     lastUpdateTimeSinceEpoch |-> pb.LastUpdateTimeSinceEpoch,
                     needToUpdate |-> TRUE,
                     updateCount |-> 0]
             /\ (handleModelCardGet(pb.ModelCardKey).resp)'
                    = Response(200, Text(pb.ModelCard))]_vars

\* C3: an Upsert on an existing record whose stored token equals the incoming
\* one leaves the record (content, token, dirty, counter) as it was, also when
\* the incoming content differs from the stored one.
C3_SameTokenKeeps ==
    [][\/ modelcards' = modelcards
       \/ \A key \in Keys, pb \in AllPostBodies \ {BadJSON} :
              ~(/\ WellFormed(key)
                /\ pb.ModelCardKey \in DOMAIN modelcards
                /\ modelcards[pb.ModelCardKey].lastUpdateTimeSinceEpoch
                       = pb.LastUpdateTimeSinceEpoch
                /\ Upsert(key, pb))]_vars

\* C3 witness: an Upsert was accepted (201) for a card that had been read and
\* whose Read count was not reset, so its token was unchanged.
C3_Witness ==
    /\ resp.status = 201
    /\ "foo" \in DOMAIN modelcards
    /\ reads["foo"] >= 1
    /\ ~modelcards["foo"].needToUpdate

\* C4: round trip.  When the last write of a URI was an accepted Upsert with
\* document bytes b, a GET of that URI answers 200 with exactly b.
C4_UpsertGetRoundTrip ==
    \A u \in Paths :
        (written[u].src = "upsert" /\ written[u].bytes # NilBytes)
            => ItemGetOf(u) = Response(200, written[u].bytes)

\* C5: once an existing URI was deleted and no Upsert of it followed, a GET
\* of that URI answers 404.
C5_GetAfterDelete ==
    \A u \in deleted : ItemGetOf(u).status = 404

\* C6: Discovery answers 200 with exactly the URIs whose payload, as last
\* written by an Upsert or by hydration and not deleted since, is not absent;
\* a zero-length payload counts as present.
C6_DiscoveryListsPresent ==
    handleCatalogDiscoveryGet =
        Response(200, UriList({u \in Paths : /\ written[u].src # "none"
                                            /\ written[u].bytes # NilBytes}))

\* C6 witness: a Discovery has just listed a URI holding a zero-length payload
\* and left out a deleted one.
C6_Witness ==
    /\ resp.status = 200
    /\ resp.body[1] = "uris"
    /\ \E u \in resp.body[2] : written[u].bytes = EmptyBytes
    /\ \E u \in deleted : u \notin resp.body[2]

\* C7: a Delete with a well-formed key answers 200 whether or not the entry
\* exists, adds no entry, removes at most its own URI from what Discovery
\* lists, leaves every other entry's payload alone, and deleting once more
\* changes nothing further.
C7_DeleteIdempotent ==
    [][\A key \in Keys :
          (Delete(key) /\ WellFormed(key))
          => /\ resp' = Response(200, NoBody)
             /\ content' = content
             /\ Discovered' = Discovered \ {UriOf(key)}
             /\ \A u \in DOMAIN content :
                    u # UriOf(key) => heap'[content[u]] = heap[content[u]]
             /\ (handleCatalogDelete(key).heap)' = heap']_vars

\* C7 witness: a Delete of an existing entry was answered 200 while another
\* entry is still listed.
C7_Witness ==
    /\ resp = Response(200, NoBody)
    /\ deleted # {}
    /\ Discovered # {}

\* C8: in every state, an Upsert or a Delete with no key, a key without two
\* segments or a body that does not parse is answered 400 and leaves both
\* stores as they are; any other Upsert is answered 201 and writes both the
\* catalog entry and the model-card record.
C8_RejectedNoEffect ==
    /\ \A key \in Keys, pb \in AllPostBodies :
           LET r == handleCatalogUpsertPost(key, pb)
           IN  IF ~WellFormed(key) \/ pb = BadJSON
               THEN /\ r.resp.status = 400
                    /\ r.content = content /\ r.heap = heap
                    /\ r.modelcards = modelcards
               ELSE /\ r.resp.status = 201
                    /\ UriOf(key) \in DOMAIN r.content
                    /\ r.heap[r.content[UriOf(key)]] = pb.Body
                    /\ pb.ModelCardKey \in DOMAIN r.modelcards
                    /\ r.modelcards[pb.ModelCardKey].lastUpdateTimeSinceEpoch
                           = pb.LastUpdateTimeSinceEpoch
    /\ \A key \in Keys :
           ~WellFormed(key) =>
               LET r == handleCatalogDelete(key)
               IN  r.resp.status = 400 /\ r.heap = heap

\* C8 witness: a request was answered 400 while both stores hold something.
C8_Witness ==
    /\ resp.status = 400
    /\ Discovered # {}
    /\ DOMAIN modelcards # {}

\* C9: a URI that was never written by an Upsert or by hydration is answered
\* 404 by GET and is not listed by Discovery.
C9_NeverUpsertedNotFound ==
    \A u \in Paths \ populated :
        ItemGetOf(u).status = 404 /\ u \notin Discovered

\* C10: GET /model/version/format looks up the URI made of all three path
\* parameters, so a format other than the stored one is answered 404.
C10_GetUsesPathFormat ==
    \A path \in Paths :
        handleItemGet(path[1], path[2], path[3]) =
            IF path \in DOMAIN content
            THEN handleCatalogInfoGet(content[path])
            ELSE Response(404, NoBody)

\* C11: every Upsert with a well-formed key and a body that parses, its
\* document bytes empty or omitted included, is answered 201, and afterwards
\* a GET of the derived URI through the parameterised route answers 200 with
\* the payload and Discovery lists the URI.
C11_UpsertAnyPayload ==
    [][\A key \in Keys, pb \in CatalogPostBodies \ {BadJSON} :
          (WellFormed(key) /\ Upsert(key, pb))
          => /\ resp' = Response(201, NoBody)
             /\ heap'[content'[UriOf(key)]] = pb.Body
             /\ (handleItemGet(UriOf(key)[1], UriOf(key)[2], UriOf(key)[3]).status)'
                    = 200
             /\ UriOf(key) \in Discovered']_vars

\* C12: loadFromStorage never waits for the mutex while holding it itself:
\* whenever it stands at its Lock call, the mutex is free for it to take, so
\* the call goes on to return with the mutex released.
C12_HydrationNeverBlocks ==
    /\ hpc = "lock" => lock # "hydration"
    /\ hpc = "done" => lock = "free"

\* The handler of a hydrated route stands between its two reads of an
\* ImportLocation's content while a Delete holds the mutex to write that
\* same field.
Racing ==
    /\ sget # NoGet
    /\ lock = "delete"
    /\ UriOf(crit.key) \in DOMAIN content
    /\ content[UriOf(crit.key)] = routes[sget]

\* C13: every read and write of an entry's payload is made under the mutex:
\* no request reads a payload, the hydrated-URI route included, while a
\* Delete or Upsert in its critical section writes it.
C13_PayloadUnderLock == ~Racing

\* C14: readers see each Upsert and Delete entirely or not at all, so a GET
\* answers as it would in some serial order of the requests: either the
\* payload an Upsert or hydration stored, or not-found; never 200 with the
\* absent payload a Delete leaves behind.
C14_AtomicVisibility == resp # Response(200, NilBytes)

\* C15: hydration takes the keys in list order: every insertion is for the
\* first key still to be ranged over; at a malformed key it only moves on to
\* the next key; a fetch failure ends it with a non-fatal false, leaving the
\* entries of earlier keys in place; and once it has returned no later key
\* is fetched or inserted.
C15_HydrationOrder ==
    [][/\ (hpc = "range" /\ hkeys # <<>> /\ ~WellFormed(Head(hkeys)) /\ hydr' # hydr)
          => /\ hkeys' = Tail(hkeys)
             /\ hpc' = "range"
             /\ hret' = "none"
             /\ store' = store
       /\ (hpc = "range" /\ hret' = "false")
          => /\ hpc' = "done"
             /\ store' = store
       /\ routes' # routes
          => /\ hkeys # <<>>
             /\ WellFormed(Head(hkeys))
             /\ DOMAIN routes' = DOMAIN routes \cup {UriOf(Head(hkeys))}
             /\ heap'[content'[UriOf(Head(hkeys))]] = hfetched
             /\ hkeys' = Tail(hkeys)
       /\ hpc = "done"
          => /\ hydr' = hydr
             /\ routes' = routes
       /\ hret' \in {"none", "true", "false"}]_vars

\* C15 witness: hydration inserted an entry, then a fetch failed and it
\* returned false; the entry of the earlier key is still served.
C15_Witness ==
    /\ hpc = "done"
    /\ hret = "false"
    /\ \E u \in DOMAIN routes : heap[routes[u]] = Bytes("stored")

\* C16: when listing the keys fails, hydration ends with a non-fatal false
\* without changing the catalog store or the model-card store and without
\* taking the mutex, and an Upsert can still populate the store afterwards.
C16_ListFailure ==
    [][(hpc = "start" /\ hret' = "false")
       => /\ hpc' = "done"
          /\ store' = store
          /\ lock' = lock
          /\ lock' = "free"
          /\ \A pb \in LockPostBodies :
                LET r == handleCatalogUpsertPost(KeyMA, pb)
                IN  /\ (r.resp)' = Response(201, NoBody)
                    /\ UriOf(KeyMA)' \in DOMAIN (r.content)']_vars

\* C16 witness: hydration returned false having inserted nothing, and an
\* Upsert then populated the store.
C16_Witness ==
    /\ hpc = "done"
    /\ hret = "false"
    /\ routes = EmptyMap
    /\ resp = Response(201, NoBody)
    /\ \E u \in DOMAIN content : written[u].src = "upsert"

\* C17: the URI keys of the catalog store only grow: no step of any
\* operation removes a key, and a Delete leaves the entry in the map with
\* its payload replaced by the absent marker.
C17_KeysOnlyGrow ==
    [][\A u \in DOMAIN content :
          /\ u \in DOMAIN content'
          /\ u \in deleted' \ deleted
             => /\ content'[u] = content[u]
                /\ heap'[content'[u]] = NilBytes]_vars

\* C17 witness: a deleted URI is still a key of the map, its payload absent.
C17_Witness ==
    \E u \in deleted : u \in DOMAIN content /\ heap[content[u]] = NilBytes

\* C18: a record's needToUpdate is true exactly while no Read of its key has
\* been answered 200 since the record was created or its token last changed;
\* a Read answered 304 and an Upsert with the stored token leave it as it is.
C18_DirtyUntilRead ==
    \A k \in DOMAIN modelcards :
        /\ modelcards[k].needToUpdate = (reads[k] = 0)
        /\ LET r == handleModelCardGet(k)
           IN  r.resp.status = 304
               => r.modelcards[k].needToUpdate = modelcards[k].needToUpdate
        /\ \A pb \in CardPostBodies \ {BadJSON} :
              (/\ pb.ModelCardKey = k
               /\ pb.LastUpdateTimeSinceEpoch = modelcards[k].lastUpdateTimeSinceEpoch)
              => handleCatalogUpsertPost(KeyMA, pb).modelcards[k].needToUpdate
                     = modelcards[k].needToUpdate

\* C18 witness: a Read of "foo" has just been answered 200 and has cleared
\* its needToUpdate, while "bar", not read since it was created, still has it.
C18_Witness ==
    /\ "foo" \in DOMAIN modelcards
    /\ "bar" \in DOMAIN modelcards
    /\ ~modelcards["foo"].needToUpdate
    /\ reads["foo"] = 1
    /\ modelcards["bar"].needToUpdate
    /\ reads["bar"] = 0
    /\ resp = Response(200, Text(modelcards["foo"].content))

\* C19: a record's updateCount stays within 0..11, it is 0 whenever
\* needToUpdate is true, and the 304 condition holds exactly when it is 11.
C19_ServeCountRange ==
    \A k \in DOMAIN modelcards :
        /\ modelcards[k].updateCount \in 0..(ServeLimit + 1)
        /\ modelcards[k].needToUpdate => modelcards[k].updateCount = 0
        /\ Throttled(modelcards[k]) <=> modelcards[k].updateCount = ServeLimit + 1

\* C19 witness: "foo" has been served 11 times and its next Read is throttled.
C19_Witness ==
    /\ "foo" \in DOMAIN modelcards
    /\ modelcards["foo"].updateCount = 11
    /\ handleModelCardGet("foo").resp = Response(304, NoBody)

\* C20: frame conditions.  Discovery and a GET of an item change neither
\* store; a model-card Read changes at most needToUpdate and updateCount of
\* the record read and never the catalog; a Delete changes at most the
\* payload of the entry addressed and never the model-card store, so every
\* card is read after the Delete as it was before.
C20_Frames ==
    [][/\ (Discovery \/ \E path \in Paths : ItemGet(path)) => store' = store
       /\ \A k \in CardKeys :
             ModelCardGet(k)
             => /\ <<content, heap, routes>>' = <<content, heap, routes>>
                /\ DOMAIN modelcards' = DOMAIN modelcards
                /\ \A j \in DOMAIN modelcards :
                      /\ j # k => modelcards'[j] = modelcards[j]
                      /\ modelcards'[j].content = modelcards[j].content
                      /\ modelcards'[j].lastUpdateTimeSinceEpoch
                             = modelcards[j].lastUpdateTimeSinceEpoch
       /\ \A key \in {KeyMA, KeyMB} :
             Delete(key)
             => /\ <<content, routes, modelcards>>' = <<content, routes, modelcards>>
                /\ DOMAIN heap' = DOMAIN heap
                /\ \A u \in DOMAIN content :
                      u # UriOf(key) => heap'[content[u]] = heap[content[u]]
                /\ \A k \in DOMAIN modelcards :
                      (handleModelCardGet(k).resp)' = handleModelCardGet(k).resp]_vars

\* C20 witness: with the catalog entry of m_a deleted and that of m_b still
\* present, the card "foo" is read and answered 200 with its content.
C20_Witness ==
    /\ UriOf(KeyMA) \in deleted
    /\ UriOf(KeyMB) \in DOMAIN content
    /\ heap[content[UriOf(KeyMB)]] = Bytes("create")
    /\ "foo" \in DOMAIN modelcards
    /\ "bar" \in DOMAIN modelcards
    /\ ~modelcards["foo"].needToUpdate
    /\ modelcards["bar"].needToUpdate
    /\ resp = Response(200, Text("card1"))

====
